---- MODULE Spec2Model ----
(***************************************************************************)
(* A model of substack_scraper.py: URL discovery, the per-post scraping    *)
(* loop of BaseSubstackScraper.scrape_posts, the persistence of markdown,  *)
(* HTML and the JSON ledger, and the localisation of remote images.        *)
(* Python strings are modelled as sequences of one-character strings, so   *)
(* that split, substring tests and length tests are computed, not assumed. *)
(***************************************************************************)
EXTENDS Integers, Sequences, FiniteSets, TLC

----------------------------------------------------------------------------
(* Bounds of the model *)

\* longest sitemap / feed document, in entries
MaxSrc == 2
\* longest resolved URL list a session of scrape_posts runs starts with
MaxPosts == 2
\* most image references in the body of one fetched post
MaxPostRefs == 1
\* most image references in a markdown passed to process_markdown_images alone
MaxRefs == 2
\* number of such calls
MaxCalls == 2
\* number of scrape_posts runs over one session
MaxRuns == 2
\* largest value of the -n argument that is tried
MaxLimit == 1

----------------------------------------------------------------------------
(* Strings *)

\* the positions where k occurs in s
Occurrences(s, k) == {i \in 1..(Len(s) - Len(k) + 1) : SubSeq(s, i, i + Len(k) - 1) = k}

\* Python's `k in s` for strings
Contains(s, k) == Occurrences(s, k) # {}

Min(S) == CHOOSE x \in S : \A y \in S : x <= y
Max(S) == CHOOSE x \in S : \A y \in S : x >= y

\* s.split(sep)[0]
BeforeFirst(s, sep) ==
    IF Contains(s, sep) THEN SubSeq(s, 1, Min(Occurrences(s, sep)) - 1) ELSE s

\* the text after the first occurrence of sep, for s containing sep
AfterFirst(s, sep) == SubSeq(s, Min(Occurrences(s, sep)) + Len(sep), Len(s))

\* s.split(sep)[1], for s containing sep
SplitSecond(s, sep) == BeforeFirst(AfterFirst(s, sep), sep)

RECURSIVE AfterLast(_, _)
\* s.split(sep)[-1]: separators are consumed left to right
AfterLast(s, sep) ==
    IF Contains(s, sep) THEN AfterLast(AfterFirst(s, sep), sep) ELSE s

Slash == <<"/">>
\* s.split("/")[-1]
LastSegment(s) == AfterLast(s, Slash)

\* s.split("/")[0]
FirstSegment(s) == BeforeFirst(s, Slash)

----------------------------------------------------------------------------
(* Module constants and the URLs of the modelled publication *)

BASE_MD_DIR == "substack_md_files"
BASE_HTML_DIR == "substack_html_pages"
BASE_IMAGE_DIR == "substack_images"

KwAbout == <<"a","b","o","u","t">>
KwArchive == <<"a","r","c","h","i","v","e">>
KwPodcast == <<"p","o","d","c","a","s","t">>
\* self.keywords
keywords == {KwAbout, KwArchive, KwPodcast}

PSep == <<"/","p","/">>

BaseUrl == <<"h","t","t","p","s",":","/","/","w",".","c","o","/">>
UrlOne == <<"h","t","t","p","s",":","/","/","w",".","c","o","/","p","/","o","n","e">>
UrlTwo == <<"h","t","t","p","s",":","/","/","w",".","c","o","/","p","/","t","w","o">>
UrlAbout == <<"h","t","t","p","s",":","/","/","w",".","c","o","/","a","b","o","u","t">>
UrlXOne == <<"h","t","t","p","s",":","/","/","w",".","c","o","/","x","/","o","n","e">>
UrlPodcast == <<"h","t","t","p","s",":","/","/","w",".","c","o","/","p","/","p","o","d","c","a","s","t","-","1">>
UrlAboutMe == <<"h","t","t","p","s",":","/","/","w",".","c","o","/","p","/","a","b","o","u","t","-","m","e">>

\* what a sitemap <loc> or a feed <link> of the publication may hold
SrcUrls == {UrlOne, UrlTwo, UrlXOne, UrlAbout, UrlPodcast}
\* the -u argument: the publication, or one of its posts
SessionUrls == {BaseUrl, UrlOne, UrlAboutMe}
AllPostUrls == SrcUrls \cup {UrlOne, UrlAboutMe}

\* the writer identifier of every URL above (netloc w.co)
WriterName == "w"

SeqsUpTo(S, n) == UNION {[1..k -> S] : k \in 0..n}

----------------------------------------------------------------------------
(* URL source resolver *)

is_post_url(url) == Contains(url, PSep)

\* filter_urls with any in place of all
filter_urls_any(urls, kws) ==
    SelectSeq(urls, LAMBDA url : \E keyword \in kws : ~Contains(url, keyword))

filter_urls(urls, kws) ==
    SelectSeq(urls, LAMBDA url : \A keyword \in kws : ~Contains(url, keyword))

\* A response to requests.get(sitemap.xml / feed.xml) followed by the parse:
\*   ok          2xx and well-formed XML; urls are the texts found
\*   http_error  not response.ok
\*   conn_error  requests.get raises
\*   parse_error ET.fromstring raises
ResponseKinds == {"ok", "http_error", "conn_error", "parse_error"}
NoResponse == [kind |-> "none", urls |-> <<>>]

SitemapResponses ==
    {[kind |-> "ok", urls |-> l] : l \in SeqsUpTo(SrcUrls, MaxSrc)}
    \cup {[kind |-> k, urls |-> <<>>] : k \in ResponseKinds \ {"ok"}}

\* a feed <item> whose <link> is missing or empty is modelled by <<>>
FeedResponses ==
    {[kind |-> "ok", urls |-> l] : l \in SeqsUpTo(SrcUrls \cup {<<>>}, MaxSrc)}
    \cup {[kind |-> k, urls |-> <<>>] : k \in ResponseKinds \ {"ok"}}

Raises(resp) == resp.kind \in {"conn_error", "parse_error"}

fetch_urls_from_sitemap(resp) ==
    IF resp.kind = "http_error" THEN <<>> ELSE resp.urls

fetch_urls_from_feed(resp) ==
    IF resp.kind = "http_error" THEN <<>>
    ELSE SelectSeq(resp.urls, LAMBDA link : link # <<>>)

\* the feed is requested only when the sitemap gave no URLs
FeedConsulted(sm) == ~Raises(sm) /\ fetch_urls_from_sitemap(sm) = <<>>

get_all_post_urls(sm, fd) ==
    LET urls == fetch_urls_from_sitemap(sm)
    IN filter_urls(IF urls = <<>> THEN fetch_urls_from_feed(fd) ELSE urls, keywords)

----------------------------------------------------------------------------
(* Content extractor and markdown transformer *)

NoElement == <<"<","n","o","n","e",">">>
Digits == {"0","1","2","3","4","5","6","7","8","9"}
\* str.isdigit()
IsDigit(s) == s # <<>> /\ \A i \in 1..Len(s) : s[i] \in Digits

TitleA == <<"A">>
Likes42 == <<"4","2">>
LikesNA == <<"N","/","A">>
DateNotFound == <<"D","a","t","e"," ","n","o","t"," ","f","o","u","n","d">>
Zero == <<"0">>

\* markdown is a sequence of blocks
combine_metadata_and_content(title, subtitle, date, like_count, content) ==
    <<[h1 |-> title]>>
    \o (IF subtitle # <<>> THEN <<[h2 |-> subtitle]>> ELSE <<>>)
    \o <<[date |-> date], [likes |-> like_count]>>
    \o content

\* soup.select_one("h1.post-title, h2").text raises when nothing is selected
ExtractRaises(soup) == soup.title = NoElement

extract_post_data(soup) ==
    LET title == soup.title
        subtitle == IF soup.subtitle # NoElement THEN soup.subtitle ELSE <<>>
        date == IF soup.date # NoElement THEN soup.date ELSE DateNotFound
        like_count == IF soup.like # NoElement /\ IsDigit(soup.like) THEN soup.like ELSE Zero
    IN [title |-> title, subtitle |-> subtitle, like_count |-> like_count, date |-> date,
        md |-> combine_metadata_and_content(title, subtitle, date, like_count, soup.body)]

md_to_html(md) == [rendered |-> md]

----------------------------------------------------------------------------
(* Persistence layer *)

NoFile == [exists |-> FALSE]
File(data) == [exists |-> TRUE, data |-> data]

MdSuffix == <<".","m","d">>
HtmlSuffix == <<".","h","t","m","l">>
get_filename_from_url(url, filetype) == LastSegment(url) \o filetype

\* lines 377-380, computed once for each modelled URL
MdPathOf == [url \in AllPostUrls |->
    [dir |-> <<BASE_MD_DIR, WriterName>>, name |-> get_filename_from_url(url, MdSuffix)]]
HtmlPathOf == [url \in AllPostUrls |->
    [dir |-> <<BASE_HTML_DIR, WriterName>>, name |-> get_filename_from_url(url, HtmlSuffix)]]
MdPath(url) == MdPathOf[url]
HtmlPath(url) == HtmlPathOf[url]
MdPaths == {MdPath(u) : u \in AllPostUrls}
HtmlPaths == {HtmlPath(u) : u \in AllPostUrls}

\* os.path.exists
Exists(files, path) == files[path].exists

\* save_to_file: returns without writing when the file exists
save_to_file(files, filepath, content) ==
    IF Exists(files, filepath) THEN files
    ELSE [files EXCEPT ![filepath] = File(content)]

CssPath == <<"..","..","assets","css","essay-styles.css">>
\* save_to_html_file: opens the file for writing unconditionally
save_to_html_file(files, filepath, content) ==
    [files EXCEPT ![filepath] = File([css |-> CssPath, main |-> content])]

InSeq(x, s) == \E i \in 1..Len(s) : s[i] = x

\* save_essays_data_to_json appending the whole batch
save_essays_data_to_json_unfiltered(json, batch) ==
    IF json.exists THEN File(json.data \o batch) ELSE File(batch)

\* save_essays_data_to_json writing the batch alone
save_essays_data_to_json_truncating(json, batch) == File(batch)

\* save_essays_data_to_json: the new content of the ledger file
save_essays_data_to_json(json, batch) ==
    IF json.exists
    THEN File(json.data \o SelectSeq(batch, LAMBDA data : ~InSeq(data, json.data)))
    ELSE File(batch)

Entry(data, url) ==
    [title |-> data.title, subtitle |-> data.subtitle, like_count |-> data.like_count,
     date |-> data.date, file_link |-> MdPath(url), html_link |-> HtmlPath(url)]

----------------------------------------------------------------------------
(* Image localizer *)

\* longest filename sanitize_filename keeps (line 71)
MaxNameLen == 100

Https == <<"h","t","t","p","s",":","/","/">>
CdnHost == <<"s","u","b","s","t","a","c","k","c","d","n",".","c","o","m">>
CdnPrefix == <<"h","t","t","p","s",":","/","/","s","u","b","s","t","a","c","k","c","d","n",".","c","o","m","/","i","m","a","g","e","/","f","e","t","c","h","/">>
ImgParams == <<"w","_","1","/">>
\* https://substackcdn.com/image/fetch/w_1/
ImgHead == CdnPrefix \o ImgParams

\* .../https%3A%2F%2Fs.co%2Fx%2Fa.png
ImgA == ImgHead \o <<"h","t","t","p","s","%","3","A","%","2","F","%","2","F","s",".","c","o","%","2","F","x","%","2","F","a",".","p","n","g">>
\* .../https%3A%2F%2Fs.co%2Fx%2Fa%3F.png : decodes to a?.png, sanitized to a.png
ImgB == ImgHead \o <<"h","t","t","p","s","%","3","A","%","2","F","%","2","F","s",".","c","o","%","2","F","x","%","2","F","a","%","3","F",".","p","n","g">>
\* .../https%3A%2F%2Fs.co%2Fx%2Fb.png
ImgC == ImgHead \o <<"h","t","t","p","s","%","3","A","%","2","F","%","2","F","s",".","c","o","%","2","F","x","%","2","F","b",".","p","n","g">>
\* .../https://s.co/x/e.png : the inner URL is not percent-encoded
ImgE == ImgHead \o <<"h","t","t","p","s",":","/","/","s",".","c","o","/","x","/","e",".","p","n","g">>
\* a final segment of MaxNameLen + 1 characters
ImgL == ImgHead \o [i \in 1..(MaxNameLen + 1) |-> "a"]

ImgUrls == {ImgA, ImgB, ImgE, ImgL}

\* the pattern \(https://substackcdn\.com/image/fetch/[^\s\)]+\)
MatchesPattern(url) ==
    /\ Len(url) > Len(CdnPrefix)
    /\ SubSeq(url, 1, Len(CdnPrefix)) = CdnPrefix
    /\ \A i \in (Len(CdnPrefix) + 1)..Len(url) : url[i] \notin {" ", ")"}

\* MatchesPattern, computed once for each modelled URL
CdnImages == {u \in ImgUrls : MatchesPattern(u)}
IsCdnImage(url) == url \in CdnImages

\* the percent escapes that occur in the modelled URLs
PercentCode(a, b) ==
    IF <<a, b>> = <<"2","F">> THEN "/"
    ELSE IF <<a, b>> = <<"3","A">> THEN ":"
    ELSE IF <<a, b>> = <<"3","F">> THEN "?"
    ELSE ""

\* urllib.parse.unquote: an escape is one character, the two characters
\* after its % are dropped
unquote(s) ==
    LET esc(i) == s[i] = "%" /\ i + 2 <= Len(s) /\ PercentCode(s[i + 1], s[i + 2]) # ""
        dropped(i) == (i > 1 /\ esc(i - 1)) \/ (i > 2 /\ esc(i - 2))
        chars == [i \in 1..Len(s) |->
                    [pos |-> i, c |-> IF esc(i) THEN PercentCode(s[i + 1], s[i + 2]) ELSE s[i]]]
        kept == SelectSeq(chars, LAMBDA x : ~dropped(x.pos))
    IN [j \in 1..Len(kept) |-> kept[j].c]

InvalidChars == {"<", ">", ":", "\"", "/", "\\", "|", "?", "*"}
\* re.sub(r'[<>:"/\\|?*]', '', filename)
RemoveInvalid(s) == SelectSeq(s, LAMBDA c : c \notin InvalidChars)

\* hashlib.md5(url).hexdigest(): a name of its own for each URL
Md5Hex(url) ==
    <<"m","d","5","-", CASE url = ImgA -> "a" [] url = ImgB -> "b" [] url = ImgC -> "c"
                         [] url = ImgE -> "e" [] url = ImgL -> "l">>

\* the Content-Type headers a HEAD request may answer with; "" when absent
ContentTypes == {"image/png", "image/jpeg", ""}
\* mimetypes.guess_extension(content_type) or '.jpg'
GuessExt(ct) == IF ct = "image/png" THEN <<".","p","n","g">> ELSE <<".","j","p","g">>

\* the filename before the length test (lines 60-68)
DerivedNameOf(url) ==
    RemoveInvalid(IF Contains(url, CdnHost)
                  THEN LastSegment(unquote(SplitSecond(url, Https)))
                  ELSE LastSegment(url))

\* DerivedNameOf, computed once for each modelled URL
DerivedNames == [u \in ImgUrls |-> DerivedNameOf(u)]
DerivedName(url) == DerivedNames[url]

\* line 71, computed once for each modelled URL
ProbedUrls == {u \in ImgUrls : Len(DerivedName(u)) > MaxNameLen \/ DerivedName(u) = <<>>}

\* the name is replaced by a hash-derived one, after a HEAD request
NeedsProbe(url) == url \in ProbedUrls

\* sanitize_filename, given the Content-Type the HEAD request returns
sanitize_filename(url, ct) ==
    IF NeedsProbe(url) THEN Md5Hex(url) \o GuessExt(ct) ELSE DerivedName(url)

RECURSIVE CommonPrefixLen(_, _)
CommonPrefixLen(a, b) ==
    IF a = <<>> \/ b = <<>> THEN 0
    ELSE IF Head(a) = Head(b) THEN 1 + CommonPrefixLen(Tail(a), Tail(b))
    ELSE 0

\* os.path.relpath on directory components
RelPath(dir, start) ==
    LET n == CommonPrefixLen(dir, start)
    IN [i \in 1..(Len(start) - n) |-> ".."] \o SubSeq(dir, n + 1, Len(dir))

\* image_dir / filename, for one writer and post
SavePath(post_slug, filename) ==
    [dir |-> <<BASE_IMAGE_DIR, WriterName>>, slug |-> post_slug, name |-> filename]

\* os.path.relpath(save_path, Path(BASE_MD_DIR) / author)
RelSavePath(path) ==
    [dir |-> RelPath(path.dir, <<BASE_MD_DIR, WriterName>>), slug |-> path.slug, name |-> path.name]

\* the image directory is a set of files, each holding what one URL served
ImgExists(files, path) == \E f \in files : f.path = path

\* outcomes of the GET of download_image:
\*   ok       status 200, the body is streamed to the file
\*   status   another status: nothing is written
\*   refused  requests.get raises
\*   broken   the stream raises after the file was opened
DownloadOutcomes == {"ok", "status", "refused", "broken"}

\* download_image: the files afterwards
download_image(files, url, save_path, outcome) ==
    IF outcome = "ok" THEN files \cup {[path |-> save_path, from |-> url, complete |-> TRUE]}
    ELSE IF outcome = "broken" THEN files \cup {[path |-> save_path, from |-> url, complete |-> FALSE]}
    ELSE files

\* outcomes of the HEAD of sanitize_filename: a Content-Type, or "raise"
ProbeOutcomes == ContentTypes \cup {"raise"}

\* what the network answers to the requests made for one matched reference;
\* a URL that needs no HEAD request gets no answer to one
NetOutcomes(url) ==
    [probe : IF NeedsProbe(url) THEN ProbeOutcomes ELSE {""}, get : DownloadOutcomes]

\* line 106: download only when the target is missing
ShouldDownload(files, save_path) == ~ImgExists(files, save_path)

\* replace_image for one match: the state of the localizer after it
replace_image(st, block, post_slug, net) ==
    LET url == block.img
        probed == NeedsProbe(url)
    IN IF ~IsCdnImage(url)
       THEN [st EXCEPT !.md = Append(st.md, block)]
       ELSE IF probed /\ net.probe = "raise"
       THEN [st EXCEPT !.raised = TRUE, !.probes = Append(st.probes, url),
                       !.failures = Append(st.failures, url)]
       ELSE
         LET filename == sanitize_filename(url, net.probe)
             save_path == SavePath(post_slug, filename)
             dl == ShouldDownload(st.files, save_path)
         IN [md |-> Append(st.md, [img_local |-> RelSavePath(save_path)]),
             files |-> IF dl THEN download_image(st.files, url, save_path, net.get) ELSE st.files,
             probes |-> IF probed THEN Append(st.probes, url) ELSE st.probes,
             downloads |-> IF dl THEN Append(st.downloads, url) ELSE st.downloads,
             failures |-> IF dl /\ net.get # "ok" THEN Append(st.failures, url)
                          ELSE st.failures,
             raised |-> FALSE]

IsImg(block) == DOMAIN block = {"img"}
\* the blocks re.sub may match
ImgPositions(md_content) == {i \in 1..Len(md_content) : IsImg(md_content[i])}
\* one answer of the network per image block
NetChoices(md_content) ==
    {net \in [ImgPositions(md_content) -> [probe : ProbeOutcomes, get : DownloadOutcomes]] :
        \A i \in ImgPositions(md_content) : net[i] \in NetOutcomes(md_content[i].img)}

RECURSIVE Localize(_, _, _, _, _)
\* re.sub over the blocks from block i on, left to right; net[i] answers the
\* requests of block i; an exception ends the substitution
Localize(st, md_content, i, post_slug, net) ==
    IF i > Len(md_content) \/ st.raised THEN st
    ELSE Localize(IF IsImg(md_content[i])
                  THEN replace_image(st, md_content[i], post_slug, net[i])
                  ELSE [st EXCEPT !.md = Append(st.md, md_content[i])],
                  md_content, i + 1, post_slug, net)

NoRequests(md_content, files) ==
    [md |-> md_content, files |-> files, probes |-> <<>>, downloads |-> <<>>,
     failures |-> <<>>, raised |-> FALSE]

\* process_markdown_images: md is the rewritten markdown (not returned when
\* raised), probes and downloads log the HEAD and GET requests issued,
\* failures those of them that raised or answered another status than 200
process_markdown_images(md_content, files, post_slug, net) ==
    Localize(NoRequests(<<>>, files), md_content, 1, post_slug, net)

\* line 393: url.split("/p/")[-1].split("/")[0], computed once for each URL
ImageSlugOf == [url \in AllPostUrls |-> FirstSegment(AfterLast(url, PSep))]
ImageSlug(url) == ImageSlugOf[url]

----------------------------------------------------------------------------
(* The session and the orchestrator *)

\* the images a post body may reference
PostImgs == {ImgE}
PostBodies == SeqsUpTo({[img |-> u] : u \in PostImgs}, MaxPostRefs)

\* the parsed pages a fetch may return; a field holds NoElement when the
\* selector finds nothing
Soups ==
    [paywall : {FALSE}, title : {NoElement, TitleA}, subtitle : {NoElement},
     date : {NoElement}, like : {NoElement, LikesNA}, body : PostBodies]
    \cup [paywall : {TRUE}, title : {TitleA}, subtitle : {NoElement},
          date : {NoElement}, like : {NoElement}, body : {<<>>}]

VARIABLES
    pc,                  \* "new", "ready", "loop", "persist" or "aborted"
    premium,             \* PremiumSubstackScraper (TRUE) or SubstackScraper
    is_single_post,
    download_images,
    post_urls,
    md_files,            \* markdown save directory: path -> file
    html_files,          \* HTML save directory: path -> file
    json_file,           \* data/<writer>.json, the ledger
    index_page,          \* <writer>.html written by generate_html_file
    img_files,           \* image directory: the set of files in it
    essays_data,         \* locals of scrape_posts
    count,
    idx,                 \* position of the for loop in post_urls
    num_posts_to_scrape,
    \* history of the run, for stating properties
    sitemap_resp,        \* what the discovery requests returned
    feed_resp,
    abort_cause,
    runs,                \* runs of scrape_posts started
    visited,             \* URLs visited by the loop in this run
    fetched,             \* URLs passed to get_url_soup in this run, in order
    paywalled,           \* fetches of this run that returned the skip sentinel
    fetched_existing,    \* some fetch was issued although the markdown existed
    succeeded,           \* ledger entries of the posts saved in this run
    failed,              \* positions of this run whose processing raised
    saved_before,        \* posts saved by earlier runs
    json_before,         \* the ledger file when the run started
    img_calls,           \* calls of process_markdown_images so far
    img_call,            \* the latest call: its input, the files before, its result
    img_first            \* per URL, the path the first call rewrote it to

vars == <<pc, premium, is_single_post, download_images, post_urls, md_files, html_files,
          json_file, index_page, img_files, essays_data, count, idx, num_posts_to_scrape, sitemap_resp,
          feed_resp, abort_cause, runs, visited, fetched, paywalled, fetched_existing,
          succeeded, failed, saved_before, json_before, img_calls, img_call, img_first>>

session == <<premium, is_single_post, download_images, post_urls, sitemap_resp, feed_resp,
            abort_cause>>
disk == <<md_files, html_files, json_file, index_page>>
history == <<runs, saved_before, json_before>>
img_history == <<img_calls, img_call, img_first>>
images == <<img_files, img_history>>

\* the HTML file and the ledger left by an earlier session of the writer
\* that used another markdown directory
OldHtml == File([css |-> CssPath, main |-> md_to_html(<<[h1 |-> <<"o","l","d">>]>>)])
OldEntry == Entry(extract_post_data([paywall |-> FALSE, title |-> TitleA, subtitle |-> NoElement,
                    date |-> NoElement, like |-> NoElement, body |-> <<>>]), UrlOne)

\* files left by earlier sessions; nothing of this session is on disk yet
InitDisk ==
    /\ md_files = [p \in MdPaths |-> NoFile]
    /\ \E earlier \in BOOLEAN :
        /\ html_files = [p \in HtmlPaths |->
                            IF earlier /\ p = HtmlPath(UrlOne) THEN OldHtml ELSE NoFile]
        /\ json_file = IF earlier THEN File(<<OldEntry>>) ELSE NoFile
    /\ index_page = NoFile
    /\ img_files = {}

NoPath == [none |-> TRUE]
NoCall == [called |-> FALSE]

InitLocals ==
    /\ img_calls = 0
    /\ img_call = NoCall
    /\ img_first = [u \in ImgUrls |-> NoPath]
    /\ essays_data = <<>>
    /\ count = 0
    /\ idx = 1
    /\ num_posts_to_scrape = 0
    /\ runs = 0
    /\ visited = 0
    /\ fetched = <<>>
    /\ paywalled = 0
    /\ fetched_existing = FALSE
    /\ succeeded = <<>>
    /\ failed = {}
    /\ saved_before = {}
    /\ json_before = NoFile

\* the URLs that pass filter_urls
PostUrls == {u \in SrcUrls : \A keyword \in keywords : ~Contains(u, keyword)}

\* the resolved lists of a constructed session: one given post, or a
\* filtered publication list
ResolvedSessions ==
    {[single |-> TRUE, urls |-> <<u>>] : u \in {v \in SessionUrls : is_post_url(v)}}
    \cup {[single |-> FALSE, urls |-> l] : l \in SeqsUpTo(PostUrls, MaxPosts)}

\* a constructed scraper, before the first scrape_posts
Init ==
    /\ pc = "ready"
    /\ premium \in BOOLEAN
    /\ download_images \in BOOLEAN
    /\ \E ses \in ResolvedSessions :
        /\ is_single_post = ses.single
        /\ post_urls = ses.urls
    /\ sitemap_resp = NoResponse
    /\ feed_resp = NoResponse
    /\ abort_cause = "none"
    /\ InitDisk
    /\ InitLocals

\* before the scraper is constructed
InitNew ==
    /\ pc = "new"
    /\ premium = FALSE
    /\ is_single_post = FALSE
    /\ download_images = FALSE
    /\ post_urls = <<>>
    /\ sitemap_resp = NoResponse
    /\ feed_resp = NoResponse
    /\ abort_cause = "none"
    /\ InitDisk
    /\ InitLocals

run_locals == <<essays_data, count, idx, num_posts_to_scrape, visited, fetched, paywalled,
                fetched_existing, succeeded, failed>>

\* BaseSubstackScraper.__init__ for a single post: the resolver is bypassed
ConstructSinglePost ==
    /\ pc = "new"
    /\ \E url \in SessionUrls, prem \in BOOLEAN, login_ok \in BOOLEAN :
        /\ is_post_url(url)
        /\ premium' = prem
        /\ is_single_post' = TRUE
        /\ post_urls' = <<url>>
        /\ pc' = IF prem /\ ~login_ok THEN "aborted" ELSE "ready"
        /\ abort_cause' = IF prem /\ ~login_ok THEN "authentication" ELSE "none"
    /\ download_images' \in BOOLEAN
    /\ UNCHANGED <<sitemap_resp, feed_resp, disk, run_locals, history, images>>

\* BaseSubstackScraper.__init__ for a publication: get_all_post_urls, then
\* (premium only) the login
ConstructPublication ==
    /\ pc = "new"
    /\ \E url \in SessionUrls, prem \in BOOLEAN, login_ok \in BOOLEAN,
          sm \in SitemapResponses, fd \in FeedResponses :
        /\ ~is_post_url(url)
        /\ ~Raises(sm) /\ (FeedConsulted(sm) => ~Raises(fd))
        /\ ~FeedConsulted(sm) => fd = [kind |-> "ok", urls |-> <<>>]
        /\ premium' = prem
        /\ is_single_post' = FALSE
        /\ sitemap_resp' = sm
        /\ feed_resp' = IF FeedConsulted(sm) THEN fd ELSE NoResponse
        /\ post_urls' = get_all_post_urls(sm, fd)
        /\ pc' = IF prem /\ ~login_ok THEN "aborted" ELSE "ready"
        /\ abort_cause' = IF prem /\ ~login_ok THEN "authentication" ELSE "none"
    /\ download_images' \in BOOLEAN
    /\ UNCHANGED <<disk, run_locals, history, images>>

\* __init__ when a discovery request or its parse raises: nothing catches it
ConstructDiscoveryRaises ==
    /\ pc = "new"
    /\ \E url \in SessionUrls, prem \in BOOLEAN,
          sm \in SitemapResponses, fd \in FeedResponses :
        /\ ~is_post_url(url)
        /\ Raises(sm) \/ (FeedConsulted(sm) /\ Raises(fd))
        /\ ~FeedConsulted(sm) => fd = [kind |-> "ok", urls |-> <<>>]
        /\ premium' = prem
        /\ sitemap_resp' = sm
        /\ feed_resp' = IF FeedConsulted(sm) THEN fd ELSE NoResponse
        /\ pc' = "aborted"
        /\ abort_cause' = "discovery"
    /\ download_images' \in BOOLEAN
    /\ UNCHANGED <<is_single_post, post_urls, disk, run_locals, history, images>>

\* scrape_posts up to the for loop
StartRun ==
    /\ pc = "ready"
    /\ runs < MaxRuns
    /\ \E n \in 0..MaxLimit : num_posts_to_scrape' = n
    /\ essays_data' = <<>>
    /\ count' = 0
    /\ idx' = 1
    /\ pc' = IF post_urls = <<>> THEN "persist" ELSE "loop"
    /\ runs' = runs + 1
    /\ visited' = 0
    /\ fetched' = <<>>
    /\ paywalled' = 0
    /\ fetched_existing' = FALSE
    /\ succeeded' = <<>>
    /\ failed' = {}
    /\ json_before' = json_file
    /\ saved_before' = saved_before \cup {succeeded[i].url : i \in 1..Len(succeeded)}
    /\ UNCHANGED <<session, disk, images>>

CurUrl == post_urls[idx]
InLoop == pc = "loop" /\ idx <= Len(post_urls)

\* ShouldFetch without the existence test
ShouldFetchAlways(url) == TRUE

\* line 382: the pipeline runs only when the markdown file is missing
ShouldFetch(url) == ~Exists(md_files, MdPath(url))

\* BreakNow ignoring the limit
BreakNowNever(c) == FALSE

\* line 418: the test that leaves the loop
BreakNow(c) == num_posts_to_scrape # 0 /\ c = num_posts_to_scrape

\* lines 416-419, reached by every iteration that does not `continue`
Counted ==
    /\ count' = count + 1
    /\ idx' = idx + 1
    /\ visited' = visited + 1
    /\ pc' = IF BreakNow(count + 1) \/ idx + 1 > Len(post_urls) THEN "persist" ELSE "loop"

\* Caught with the error ending the loop
CaughtEndsLoop ==
    /\ count' = count + 1
    /\ idx' = idx + 1
    /\ visited' = visited + 1
    /\ pc' = "persist"

\* lines 413-419: the except clause logs, then the iteration ends as any other
Caught == Counted

\* lines 385-386: `continue` goes to the next URL past the count
Continued ==
    /\ count' = count
    /\ idx' = idx + 1
    /\ visited' = visited + 1
    /\ pc' = IF idx + 1 > Len(post_urls) THEN "persist" ELSE "loop"

Fetch(url) ==
    /\ fetched' = Append(fetched, url)
    /\ fetched_existing' = (fetched_existing \/ Exists(md_files, MdPath(url)))

\* the record kept of a call of process_markdown_images
CallRecord(md_content, files, post_slug, result) ==
    [called |-> TRUE, md_content |-> md_content, files_before |-> files, post_slug |-> post_slug,
     first_before |-> img_first, result |-> result]

\* the first rewritten path of every URL, after a call that returned
FirstPaths(md_content, result) ==
    [u \in ImgUrls |->
        IF img_first[u] # NoPath \/ result.raised THEN img_first[u]
        ELSE LET at == {i \in ImgPositions(md_content) : md_content[i].img = u}
             IN IF at = {} THEN NoPath ELSE result.md[Min(at)].img_local]

RecordCall(md_content, post_slug, result) ==
    /\ img_calls' = img_calls + 1
    /\ img_call' = CallRecord(md_content, img_files, post_slug, result)
    /\ img_first' = FirstPaths(md_content, result)

\* lines 390-396: the markdown and image files after the optional localization
Localized(md_content, url, net) ==
    IF download_images
    THEN process_markdown_images(md_content, img_files, ImageSlug(url), net)
    ELSE NoRequests(md_content, img_files)

\* the answers of the network during a run of scrape_posts
PostNetOutcomes == [probe : {"image/png", "raise"}, get : {"ok", "refused"}]
PostNetChoices(md_content) ==
    IF download_images
    THEN {net \in NetChoices(md_content) :
            \A i \in ImgPositions(md_content) : net[i] \in PostNetOutcomes}
    ELSE {<<>>}

AfterLocalize(md_content, url, result) ==
    /\ img_files' = result.files
    /\ UNCHANGED img_history

\* the soups extract_post_data accepts
Extracted(soup) == (premium \/ ~soup.paywall) /\ ~ExtractRaises(soup)

\* the markdown file exists: nothing is fetched
VisitExisting ==
    /\ InLoop
    /\ ~ShouldFetch(CurUrl)
    /\ Counted
    /\ UNCHANGED <<session, disk, history, images, essays_data, num_posts_to_scrape, fetched,
                   paywalled, fetched_existing, succeeded, failed>>

\* get_url_soup raises
VisitFetchError ==
    /\ InLoop
    /\ ShouldFetch(CurUrl)
    /\ Fetch(CurUrl)
    /\ failed' = failed \cup {idx}
    /\ Caught
    /\ UNCHANGED <<session, disk, history, images, essays_data, num_posts_to_scrape,
                   paywalled, succeeded>>

\* SubstackScraper.get_url_soup finds the paywall marker and returns None
VisitPaywalled ==
    /\ InLoop
    /\ ShouldFetch(CurUrl)
    /\ ~premium
    /\ \E soup \in Soups : soup.paywall
    /\ Fetch(CurUrl)
    /\ paywalled' = paywalled + 1
    /\ Continued
    /\ UNCHANGED <<session, disk, history, images, essays_data, num_posts_to_scrape,
                   succeeded, failed>>

\* extract_post_data raises: no title element
VisitExtractError ==
    /\ InLoop
    /\ ShouldFetch(CurUrl)
    /\ \E soup \in Soups : (premium \/ ~soup.paywall) /\ ExtractRaises(soup)
    /\ Fetch(CurUrl)
    /\ failed' = failed \cup {idx}
    /\ Caught
    /\ UNCHANGED <<session, disk, history, images, essays_data, num_posts_to_scrape,
                   paywalled, succeeded>>

\* process_markdown_images raises (the HEAD request of sanitize_filename):
\* the images downloaded before it stay, nothing else is written
VisitImageError ==
    /\ InLoop
    /\ ShouldFetch(CurUrl)
    /\ download_images
    /\ \E soup \in Soups :
        /\ Extracted(soup)
        /\ LET md == extract_post_data(soup).md
           IN \E net \in PostNetChoices(md) :
                LET result == Localized(md, CurUrl, net)
                IN result.raised /\ AfterLocalize(md, CurUrl, result)
    /\ Fetch(CurUrl)
    /\ failed' = failed \cup {idx}
    /\ Caught
    /\ UNCHANGED <<session, disk, history, essays_data, num_posts_to_scrape, paywalled, succeeded>>

\* save_to_file raises (the open fails): no post file is written
VisitMdWriteError ==
    /\ InLoop
    /\ ShouldFetch(CurUrl)
    /\ \E soup \in Soups :
        /\ Extracted(soup)
        /\ LET md == extract_post_data(soup).md
           IN \E net \in PostNetChoices(md) :
                LET result == Localized(md, CurUrl, net)
                IN ~result.raised /\ AfterLocalize(md, CurUrl, result)
    /\ Fetch(CurUrl)
    /\ failed' = failed \cup {idx}
    /\ Caught
    /\ UNCHANGED <<session, disk, history, essays_data, num_posts_to_scrape, paywalled, succeeded>>

\* save_to_html_file raises after the markdown was written
VisitHtmlWriteError ==
    /\ InLoop
    /\ ShouldFetch(CurUrl)
    /\ \E soup \in Soups :
        /\ Extracted(soup)
        /\ LET md == extract_post_data(soup).md
           IN \E net \in PostNetChoices(md) :
                LET result == Localized(md, CurUrl, net)
                IN /\ ~result.raised
                   /\ AfterLocalize(md, CurUrl, result)
                   /\ md_files' = save_to_file(md_files, MdPath(CurUrl), result.md)
    /\ Fetch(CurUrl)
    /\ failed' = failed \cup {idx}
    /\ Caught
    /\ UNCHANGED <<session, html_files, json_file, index_page, history, essays_data,
                   num_posts_to_scrape, paywalled, succeeded>>

\* the post is fetched, extracted, localized, written and added to the batch
VisitSaved ==
    /\ InLoop
    /\ ShouldFetch(CurUrl)
    /\ \E soup \in Soups :
        /\ Extracted(soup)
        /\ LET data == extract_post_data(soup)
           IN \E net \in PostNetChoices(data.md) :
                LET result == Localized(data.md, CurUrl, net)
                IN /\ ~result.raised
                   /\ AfterLocalize(data.md, CurUrl, result)
                   /\ md_files' = save_to_file(md_files, MdPath(CurUrl), result.md)
                   /\ html_files' = save_to_html_file(html_files, HtmlPath(CurUrl),
                                                      md_to_html(result.md))
                   /\ essays_data' = Append(essays_data, Entry(data, CurUrl))
                   /\ succeeded' = Append(succeeded, [pos |-> idx, url |-> CurUrl,
                                                      entry |-> Entry(data, CurUrl)])
    /\ Fetch(CurUrl)
    /\ Counted
    /\ UNCHANGED <<session, json_file, index_page, history, num_posts_to_scrape, paywalled, failed>>

\* after the loop: save_essays_data_to_json, then generate_html_file
Persist ==
    /\ pc = "persist"
    /\ json_file' = save_essays_data_to_json(json_file, essays_data)
    /\ index_page' = File(json_file'.data)
    /\ pc' = "ready"
    /\ UNCHANGED <<session, md_files, html_files, images, run_locals, history>>

\* the bodies passed to process_markdown_images on its own
Bodies == SeqsUpTo({[img |-> u] : u \in ImgUrls}, MaxRefs)
SoloSlug == ImageSlug(UrlOne)

\* one call of process_markdown_images for a post of the writer
LocalizeCall ==
    /\ img_calls < MaxCalls
    /\ \E md \in Bodies : \E net \in NetChoices(md) :
        LET result == process_markdown_images(md, img_files, SoloSlug, net)
        IN /\ img_files' = result.files
           /\ RecordCall(md, SoloSlug, result)
    /\ UNCHANGED <<pc, session, disk, run_locals, history>>

Next ==
    \/ StartRun
    \/ VisitExisting
    \/ VisitFetchError
    \/ VisitPaywalled
    \/ VisitExtractError
    \/ VisitImageError
    \/ VisitMdWriteError
    \/ VisitHtmlWriteError
    \/ VisitSaved
    \/ Persist

\* the runs of scrape_posts over one constructed session
Spec == Init /\ [][Next]_vars

NextDiscovery ==
    \/ ConstructSinglePost
    \/ ConstructPublication
    \/ ConstructDiscoveryRaises

\* the construction of a session
SpecDiscovery == InitNew /\ [][NextDiscovery]_vars

NextImages == LocalizeCall

\* an empty image directory, outside any run of scrape_posts
InitImages ==
    /\ InitNew
    /\ json_file = NoFile

\* calls of process_markdown_images over one image directory
SpecImages == InitImages /\ [][NextImages]_vars

TypeOK ==
    /\ pc \in {"new", "ready", "loop", "persist", "aborted"}
    /\ count \in 0..MaxPosts
    /\ idx \in 1..(MaxPosts + 1)

----------------------------------------------------------------------------
(* Properties *)

IsPrefix(s, t) == Len(s) <= Len(t) /\ SubSeq(t, 1, Len(s)) = s
InRun == runs > 0 /\ pc \in {"loop", "persist", "ready"}
Limited == InRun /\ num_posts_to_scrape > 0
MinOf(a, b) == IF a <= b THEN a ELSE b

\* C1: no page fetch is issued for a URL whose markdown file exists when the
\* URL is visited; a later run fetches no post saved by an earlier run of the
\* session and adds no ledger entry for it
C1_NoFetchWhenMarkdownExists ==
    /\ ~fetched_existing
    /\ \A i \in 1..Len(fetched) : \A u \in saved_before : MdPath(fetched[i]) # MdPath(u)
    /\ \A i \in 1..Len(essays_data) : \A u \in saved_before :
            essays_data[i].file_link # MdPath(u)

\* a second run has visited the whole list, every post of which the first
\* run saved, without a fetch
C1_Witness ==
    /\ runs = 2 /\ pc = "persist"
    /\ Len(post_urls) > 0 /\ visited = Len(post_urls)
    /\ \A i \in 1..Len(post_urls) : post_urls[i] \in saved_before
    /\ fetched = <<>>

C3_WritesNeverOverwrite ==
    [][/\ \A p \in MdPaths : md_files[p].exists => md_files'[p] = md_files[p]
       /\ \A p \in HtmlPaths : html_files[p].exists => html_files'[p] = html_files[p]]_vars

NoDuplicates(s) == \A i, j \in 1..Len(s) : i # j => s[i] # s[j]

\* C4: the persisted ledger never holds two fully identical entries
C4_LedgerHasNoDuplicates == json_file.exists => NoDuplicates(json_file.data)

\* a run has persisted a batch holding an entry the ledger already had
C4_Witness ==
    /\ pc = "ready" /\ runs > 0
    /\ json_before.exists
    /\ \E i \in 1..Len(essays_data) : InSeq(essays_data[i], json_before.data)

\* C5: the ledger before a run is a prefix of the ledger after it
C5_LedgerAppendOnly ==
    (pc = "ready" /\ runs > 0 /\ json_before.exists) =>
        json_file.exists /\ IsPrefix(json_before.data, json_file.data)

\* a run over a non-empty ledger has persisted an empty batch
C5_Witness ==
    /\ pc = "ready" /\ runs > 0
    /\ json_before.exists /\ json_before.data # <<>>
    /\ visited > 0 /\ essays_data = <<>>

Failed(resp) == resp.kind \in ResponseKinds \ {"ok"}

\* C6 as stated: a failed sitemap leads to the feed, a failed feed after it
\* to the empty list, and nothing but a failed login aborts
C6_DiscoveryNeverAborts ==
    /\ pc = "aborted" => abort_cause = "authentication"
    /\ Failed(sitemap_resp) => feed_resp # NoResponse
    /\ (Failed(sitemap_resp) /\ Failed(feed_resp) /\ pc = "ready") => post_urls = <<>>

\* C7: an error of one post ends neither the loop nor the run: the post is
\* counted, the loop ends only at the limit or at the end of the list,
\* having visited the URLs in order, and the ledger persisted after it holds
\* the entry of every post saved in the run
C7_FailuresIsolated ==
    InRun =>
        /\ visited = idx - 1
        /\ Cardinality(failed) + Len(succeeded) <= count
        /\ \A i \in failed : i <= visited
        /\ pc \in {"persist", "ready"} => BreakNow(count) \/ visited = Len(post_urls)
        /\ pc = "ready" =>
                /\ json_file.exists
                /\ \A i \in 1..Len(succeeded) : InSeq(succeeded[i].entry, json_file.data)

\* a run in which a post failed and a later post was saved and persisted
C7_Witness ==
    /\ pc = "ready" /\ runs > 0
    /\ \E i \in failed : \E j \in 1..Len(succeeded) : succeeded[j].pos > i

HasKeyword(url) == Contains(url, KwAbout) \/ Contains(url, KwArchive) \/ Contains(url, KwPodcast)

RECURSIVE WithoutKeywordUrls(_)
WithoutKeywordUrls(urls) ==
    IF urls = <<>> THEN <<>>
    ELSE (IF HasKeyword(Head(urls)) THEN <<>> ELSE <<Head(urls)>>)
         \o WithoutKeywordUrls(Tail(urls))

RECURSIVE WithoutEmptyLinks(_)
WithoutEmptyLinks(links) ==
    IF links = <<>> THEN <<>>
    ELSE (IF Head(links) = <<>> THEN <<>> ELSE <<Head(links)>>)
         \o WithoutEmptyLinks(Tail(links))

\* the list discovery draws from: the sitemap entries, or the feed links
\* when the sitemap failed or was empty
SourceList ==
    IF sitemap_resp.kind = "ok" /\ sitemap_resp.urls # <<>> THEN sitemap_resp.urls
    ELSE IF feed_resp.kind = "ok" THEN WithoutEmptyLinks(feed_resp.urls)
    ELSE <<>>

CallRefs == ImgPositions(img_call.md_content)
Returned == img_call.called /\ ~img_call.result.raised
Requested(log, url) == \E i \in 1..Len(log) : log[i] = url
TargetOf(rel) == SavePath(rel.slug, rel.name)

\* C9 as stated: a call of process_markdown_images makes no request, HEAD or
\* GET, for a URL whose file an earlier call left at its target, and
\* rewrites it to the path the first call gave
C9_SecondPassNoRequests ==
    img_call.called =>
        \A i \in CallRefs :
            LET url == img_call.md_content[i].img
                first == img_call.first_before[url]
            IN (first # NoPath /\ ImgExists(img_call.files_before, TargetOf(first))) =>
                 /\ ~Requested(img_call.result.probes, url)
                 /\ ~Requested(img_call.result.downloads, url)
                 /\ ~img_call.result.raised
                 /\ img_call.result.md[i].img_local = first

\* C10 as stated: of k distinct references, j of them with a file at the
\* local target, exactly k - j are downloaded and all k are rewritten
C10_DownloadsAreMissingTargets ==
    (Returned /\ \A i, j \in CallRefs : i # j =>
                    img_call.md_content[i].img # img_call.md_content[j].img) =>
        LET present == {i \in CallRefs :
                          ImgExists(img_call.files_before,
                                    TargetOf(img_call.result.md[i].img_local))}
        IN /\ Len(img_call.result.downloads) = Cardinality(CallRefs) - Cardinality(present)
           /\ \A i \in CallRefs : DOMAIN img_call.result.md[i] = {"img_local"}

\* C11 as stated: a call of process_markdown_images in which a request for an
\* image failed, the GET of the download or the HEAD of the probe, still
\* returns, having rewritten every matched reference, the failed one included
C11_ImageFailureNeverAborts ==
    (img_call.called /\ img_call.result.failures # <<>>) =>
        /\ ~img_call.result.raised
        /\ Len(img_call.result.md) = Len(img_call.md_content)
        /\ \A i \in CallRefs : DOMAIN img_call.result.md[i] = {"img_local"}

\* C12 as stated: when a run of scrape_posts has returned, every markdown
\* file created by the runs so far (none exists before the first) has an
\* entry in the persisted ledger whose markdown path is that file
C12_MarkdownFilesHaveEntries ==
    (pc = "ready" /\ runs > 0) =>
        \A p \in MdPaths :
            md_files[p].exists =>
                /\ json_file.exists
                /\ \E i \in 1..Len(json_file.data) : json_file.data[i].file_link = p

====
